---- MODULE Spec2Model ----
(***************************************************************************)
(* Model of the alumni directory's search manager (src/js/search.js):      *)
(* query normalisation, term extraction, relevance scoring, fuzzy          *)
(* matching, the insertion-ordered result cache, and the performSearch     *)
(* control flow with its local and remote (AI) paths.                      *)
(*                                                                         *)
(* JavaScript strings are TLA+ strings (Len, SubSeq and \o act on them     *)
(* character by character).  JavaScript objects are records whose absent   *)
(* properties are absent fields.  Scores are exact rationals [n, d] in     *)
(* lowest terms; the weights of the source are written in thousandths.     *)
(***************************************************************************)
EXTENDS Integers, Sequences, FiniteSets, TLC

(***************************************************************************)
(* Strings                                                                 *)
(***************************************************************************)

UpperChars == "ABCDEFGHIJKLMNOPQRSTUVWXYZ"
LowerChars == "abcdefghijklmnopqrstuvwxyz"

CharAt(s, i) == SubSeq(s, i, i)

\* String.prototype.toLowerCase, one character
LowerChar(c) ==
    IF \E i \in 1..Len(UpperChars) : CharAt(UpperChars, i) = c
    THEN CharAt(LowerChars, CHOOSE i \in 1..Len(UpperChars) : CharAt(UpperChars, i) = c)
    ELSE c

RECURSIVE ToLowerCase(_)
ToLowerCase(s) ==
    IF Len(s) = 0 THEN ""
    ELSE LowerChar(CharAt(s, 1)) \o ToLowerCase(SubSeq(s, 2, Len(s)))

\* the white space the inputs use: space and tab
IsSpace(c) == c = " " \/ c = "\t"

RECURSIVE TrimStart(_)
TrimStart(s) ==
    IF Len(s) > 0 /\ IsSpace(CharAt(s, 1)) THEN TrimStart(SubSeq(s, 2, Len(s))) ELSE s

RECURSIVE TrimEnd(_)
TrimEnd(s) ==
    IF Len(s) > 0 /\ IsSpace(CharAt(s, Len(s))) THEN TrimEnd(SubSeq(s, 1, Len(s) - 1)) ELSE s

\* String.prototype.trim
Trim(s) == TrimEnd(TrimStart(s))

\* String.prototype.includes
Includes(text, pat) ==
    \E i \in 0..(Len(text) - Len(pat)) : SubSeq(text, i + 1, i + Len(pat)) = pat

\* String.prototype.split(/\s+/): the pieces between maximal runs of white
\* space; a leading or trailing run leaves an empty piece at that end.
RECURSIVE SplitFrom(_, _, _)
SplitFrom(s, i, cur) ==
    IF i > Len(s) THEN <<cur>>
    ELSE IF IsSpace(CharAt(s, i))
         THEN IF i > 1 /\ IsSpace(CharAt(s, i - 1))
              THEN SplitFrom(s, i + 1, cur)
              ELSE <<cur>> \o SplitFrom(s, i + 1, "")
         ELSE SplitFrom(s, i + 1, cur \o CharAt(s, i))

SplitWhitespace(s) == SplitFrom(s, 1, "")

\* Array.prototype.join(' ')
RECURSIVE JoinSpace(_)
JoinSpace(xs) ==
    IF Len(xs) = 0 THEN ""
    ELSE IF Len(xs) = 1 THEN xs[1]
    ELSE xs[1] \o " " \o JoinSpace(Tail(xs))

\* String.prototype.replace(from, to) with a string pattern: first occurrence
Replace(s, from, to) ==
    IF ~Includes(s, from) THEN s
    ELSE LET i == CHOOSE k \in 0..(Len(s) - Len(from)) :
                    /\ SubSeq(s, k + 1, k + Len(from)) = from
                    /\ \A j \in 0..(k - 1) : SubSeq(s, j + 1, j + Len(from)) # from
         IN SubSeq(s, 1, i) \o to \o SubSeq(s, i + Len(from) + 1, Len(s))

(***************************************************************************)
(* Exact rational arithmetic for the scores                                *)
(***************************************************************************)

RECURSIVE Gcd(_, _)
Gcd(a, b) == IF b = 0 THEN a ELSE Gcd(b, a % b)

\* the rational n/d (d > 0) in lowest terms
Rat(n, d) == LET g == Gcd(n, d) IN IF n = 0 THEN [n |-> 0, d |-> 1] ELSE [n |-> n \div g, d |-> d \div g]

RZero == Rat(0, 1)
ROne == Rat(1, 1)
RAdd(a, b) ==
    LET g == Gcd(a.d, b.d)
    IN Rat(a.n * (b.d \div g) + b.n * (a.d \div g), (a.d \div g) * b.d)
RMul(a, b) == LET x == Rat(a.n, b.d) y == Rat(b.n, a.d) IN Rat(x.n * y.n, x.d * y.d)
RLess(a, b) == a.n * b.d < b.n * a.d
RLeq(a, b) == a.n * b.d <= b.n * a.d
RMin(a, b) == IF RLess(b, a) THEN b ELSE a
RMax(a, b) == IF RLess(a, b) THEN b ELSE a
\* a literal of the source written in thousandths: 0.125 is Milli(125)
Milli(k) == Rat(k, 1000)

(***************************************************************************)
(* Fuzzy matching: src/js/search.js 550-611                                *)
(***************************************************************************)

Min3WithoutThird(a, b, c) == IF a <= b THEN a ELSE b
Min3(a, b, c) == IF a <= b /\ a <= c THEN a ELSE IF b <= c THEN b ELSE c

\* One row of the matrix of levenshteinDistance: row i from row i-1 (prev).
\* Column j of a row is kept at index j+1.  (The tests on Len only make the
\* evaluator compute each row before it goes on to the next.)
RECURSIVE LevRow(_, _, _, _, _)
LevRow(str1, ch, prev, j, acc) ==
    IF j > Len(str1) THEN acc
    ELSE LET cell == IF ch = CharAt(str1, j)
                     THEN prev[j]
                     ELSE Min3(prev[j] + 1, acc[j] + 1, prev[j + 1] + 1)
             next == Append(acc, cell)
         IN IF Len(next) = j + 1 THEN LevRow(str1, ch, prev, j + 1, next) ELSE <<>>

RECURSIVE LevRows(_, _, _, _)
LevRows(str1, str2, i, prev) ==
    IF i > Len(str2) THEN prev
    ELSE LET row == LevRow(str1, CharAt(str2, i), prev, 1, <<i>>)
         IN IF Len(row) = Len(str1) + 1 THEN LevRows(str1, str2, i + 1, row) ELSE <<>>

levenshteinDistance(str1, str2) ==
    LevRows(str1, str2, 1, [j \in 1..(Len(str1) + 1) |-> j - 1])[Len(str1) + 1]

stringSimilarity(str1, str2) ==
    LET longer == IF Len(str1) > Len(str2) THEN str1 ELSE str2
        shorter == IF Len(str1) > Len(str2) THEN str2 ELSE str1
    IN IF Len(longer) = 0 THEN ROne
       ELSE Rat(Len(longer) - levenshteinDistance(longer, shorter), Len(longer))

\* the points one keyword adds to `matches`
KeywordPointsFromThreshold(text, keyword) ==
    IF Includes(text, keyword) THEN ROne
    ELSE LET similarity == stringSimilarity(text, keyword)
         IN IF RLess(similarity, Milli(700)) THEN RZero ELSE similarity
KeywordPoints(text, keyword) ==
    IF Includes(text, keyword) THEN ROne
    ELSE LET similarity == stringSimilarity(text, keyword)
         IN IF RLess(Milli(700), similarity) THEN similarity ELSE RZero

RECURSIVE SumPoints(_, _)
SumPoints(text, keywords) ==
    IF Len(keywords) = 0 THEN RZero
    ELSE RAdd(KeywordPoints(text, Head(keywords)), SumPoints(text, Tail(keywords)))

fuzzyMatch(text, keywords) ==
    IF text = "" \/ Len(keywords) = 0 THEN RZero
    ELSE RMin(RMul(SumPoints(text, keywords), Rat(1, Len(keywords))), ROne)

(***************************************************************************)
(* Term extraction: src/js/search.js 422-463                               *)
(***************************************************************************)

industries == <<"technology", "finance", "healthcare", "education", "consulting",
                "marketing", "real-estate", "nonprofit">>
roles == <<"founder", "ceo", "manager", "director", "engineer", "consultant",
           "analyst", "designer">>
locations == <<"san francisco", "new york", "london", "toronto", "singapore", "tokyo">>
goals == <<"mentorship", "partnerships", "job opportunities", "advice", "connections">>
experience == <<"junior", "mid", "senior", "entry level", "experienced">>

\* word => word.length > 2
LongWordFromTwo(word) == Len(word) > 1
LongWord(word) == Len(word) > 2

extractSearchTerms(query) ==
    LET normalizedQuery == ToLowerCase(query)
        InQuery(term) == Includes(normalizedQuery, term)
        IndustryInQuery(industry) ==
            Includes(normalizedQuery, industry)
            \/ Includes(normalizedQuery, Replace(industry, "-", " "))
    IN [keywords |-> SelectSeq(SplitWhitespace(normalizedQuery), LongWord),
        matchedIndustries |-> SelectSeq(industries, IndustryInQuery),
        matchedRoles |-> SelectSeq(roles, InQuery),
        matchedLocations |-> SelectSeq(locations, InQuery),
        matchedGoals |-> SelectSeq(goals, InQuery),
        matchedExperience |-> SelectSeq(experience, InQuery)]

(***************************************************************************)
(* Relevance scoring: src/js/search.js 468-545                             *)
(***************************************************************************)

\* an object's property: present or absent
Has(obj, f) == f \in DOMAIN obj
\* obj.f || dflt, for a property that holds an object or an array
PropOr(obj, f, dflt) == IF Has(obj, f) THEN obj[f] ELSE dflt
\* `${obj.f}`: an absent property prints as "undefined"
Interp(obj, f) == IF Has(obj, f) THEN obj[f] ELSE "undefined"
\* if (obj.f), for a property that holds a string
TruthyStr(obj, f) == Has(obj, f) /\ obj[f] # ""
EmptyObject == <<>>

Some(xs, P(_)) == \E i \in 1..Len(xs) : P(xs[i])

\* the weights table, in thousandths
weights == [name |-> 300, role |-> 250, company |-> 200, industry |-> 150,
            expertise |-> 200, location |-> 100, networking |-> 150, exact |-> 500]

\* the text the exact-match signal searches
FullText(alumni) ==
    LET personal == PropOr(alumni, "personal", EmptyObject)
        professional == PropOr(alumni, "professional", EmptyObject)
    IN ToLowerCase(Interp(personal, "name") \o " "
                   \o Interp(professional, "current_role") \o " "
                   \o Interp(professional, "company") \o " "
                   \o Interp(professional, "industry") \o " "
                   \o Interp(PropOr(personal, "location", EmptyObject), "city"))

\* the role weight without the vocabulary bonus
RoleWeightWithoutBonus(professional, searchTerms) ==
    IF TruthyStr(professional, "current_role")
    THEN RMul(fuzzyMatch(ToLowerCase(professional.current_role), searchTerms.keywords),
              Milli(weights.role))
    ELSE RZero

\* role matching (497-506): the fuzzy match, and half the weight again when a
\* matched role term is part of the role
RoleWeight(professional, searchTerms) ==
    LET RoleHas(role) == Includes(ToLowerCase(professional.current_role), role)
    IN IF TruthyStr(professional, "current_role")
       THEN RAdd(RMul(fuzzyMatch(ToLowerCase(professional.current_role),
                                 searchTerms.keywords),
                      Milli(weights.role)),
                 IF Some(searchTerms.matchedRoles, RoleHas)
                 THEN RMul(Milli(weights.role), Milli(500)) ELSE RZero)
       ELSE RZero

\* the industry test done on substrings without regard to case
IndustryWeightBySubstring(professional, searchTerms) ==
    LET InIndustry(industry) == Includes(ToLowerCase(professional.industry), industry)
    IN IF TruthyStr(professional, "industry")
          /\ Some(searchTerms.matchedIndustries, InIndustry)
       THEN Milli(weights.industry) ELSE RZero

\* industry matching (514-519): matchedIndustries.includes(professional.industry)
IndustryWeight(professional, searchTerms) ==
    LET IsIndustry(industry) == industry = professional.industry
    IN IF TruthyStr(professional, "industry")
          /\ Some(searchTerms.matchedIndustries, IsIndustry)
       THEN Milli(weights.industry) ELSE RZero

\* the sum of the triggered weights, before the cap
ScoreSum(alumni, searchTerms, originalQuery) ==
    LET personal == PropOr(alumni, "personal", EmptyObject)
        professional == PropOr(alumni, "professional", EmptyObject)
        networking == PropOr(alumni, "networking", EmptyObject)
        exactPart ==
            IF Includes(FullText(alumni), ToLowerCase(originalQuery))
            THEN Milli(weights.exact) ELSE RZero
        namePart ==
            IF TruthyStr(personal, "name")
            THEN RMul(fuzzyMatch(ToLowerCase(personal.name), searchTerms.keywords),
                      Milli(weights.name))
            ELSE RZero
        rolePart == RoleWeight(professional, searchTerms)
        companyPart ==
            IF TruthyStr(professional, "company")
            THEN RMul(fuzzyMatch(ToLowerCase(professional.company), searchTerms.keywords),
                      Milli(weights.company))
            ELSE RZero
        industryPart == IndustryWeight(professional, searchTerms)
        expertisePart ==
            IF Has(professional, "expertise_tags")
            THEN RMul(fuzzyMatch(ToLowerCase(JoinSpace(professional.expertise_tags)),
                                 searchTerms.keywords),
                      Milli(weights.expertise))
            ELSE RZero
        locationText ==
            ToLowerCase(Interp(personal.location, "city") \o " "
                        \o Interp(personal.location, "country"))
        LocationHas(loc) == Includes(locationText, loc)
        locationPart ==
            IF Has(personal, "location") /\ Some(searchTerms.matchedLocations, LocationHas)
            THEN Milli(weights.location) ELSE RZero
        networkingText ==
            ToLowerCase(JoinSpace(PropOr(networking, "goals", <<>>)
                                  \o PropOr(networking, "offering", <<>>)))
        NetworkingHas(goal) == Includes(networkingText, goal)
        networkingPart ==
            IF (Has(networking, "goals") \/ Has(networking, "offering"))
               /\ Some(searchTerms.matchedGoals, NetworkingHas)
            THEN Milli(weights.networking) ELSE RZero
    IN RAdd(exactPart, RAdd(namePart, RAdd(rolePart, RAdd(companyPart,
       RAdd(industryPart, RAdd(expertisePart, RAdd(locationPart, networkingPart)))))))

\* the score without its cap
calculateRelevanceScoreUncapped(alumni, searchTerms, originalQuery) ==
    ScoreSum(alumni, searchTerms, originalQuery)

calculateRelevanceScore(alumni, searchTerms, originalQuery) ==
    RMin(ScoreSum(alumni, searchTerms, originalQuery), ROne)

\* reading a property of obj.f, or calling a method on it, throws a TypeError
\* when obj.f is undefined
Undefined(obj, f) == ~Has(obj, f)

\* the location test left out: locationText reads personal.location.city of
\* every profile
ScoreThrowsLocationUnguarded(alumni) ==
    Undefined(PropOr(alumni, "personal", EmptyObject), "location")

\* calculateRelevanceScore throws: one of its property reads is reached, under
\* the test that encloses it, on a value that is undefined.  The groups are
\* read as alumni.personal || {}, the city of fullText with ?.
ScoreThrows(alumni) ==
    LET personal == PropOr(alumni, "personal", EmptyObject)
        professional == PropOr(alumni, "professional", EmptyObject)
    IN \/ TruthyStr(personal, "name") /\ Undefined(personal, "name")
       \/ TruthyStr(professional, "current_role")
             /\ Undefined(professional, "current_role")
       \/ TruthyStr(professional, "company") /\ Undefined(professional, "company")
       \/ Has(professional, "expertise_tags")
             /\ Undefined(professional, "expertise_tags")
       \/ Has(personal, "location") /\ Undefined(personal, "location")

(***************************************************************************)
(* Result lists: src/js/search.js 370-417                                  *)
(***************************************************************************)

\* { ...alumni, searchRelevance, searchQuery }
WithSearchFields(alumni, relevance, query) ==
    [f \in DOMAIN alumni \cup {"searchRelevance", "searchQuery"} |->
        IF f = "searchRelevance" THEN relevance
        ELSE IF f = "searchQuery" THEN query
        ELSE alumni[f]]

\* a sort that is not stable: an element goes in front of its equals
InsertByRelevanceUnstable(sorted, r) ==
    LET notLarger == {i \in 1..Len(sorted) :
                        RLeq(sorted[i].searchRelevance, r.searchRelevance)}
        at == IF notLarger = {} THEN Len(sorted) + 1
              ELSE CHOOSE i \in notLarger : \A k \in notLarger : i <= k
    IN SubSeq(sorted, 1, at - 1) \o <<r>> \o SubSeq(sorted, at, Len(sorted))

\* results.sort((a, b) => b.searchRelevance - a.searchRelevance): the sort is
\* stable, so an element goes in front of the first strictly smaller one.
InsertByRelevance(sorted, r) ==
    LET smaller == {i \in 1..Len(sorted) :
                        RLess(sorted[i].searchRelevance, r.searchRelevance)}
        at == IF smaller = {} THEN Len(sorted) + 1
              ELSE CHOOSE i \in smaller : \A k \in smaller : i <= k
    IN SubSeq(sorted, 1, at - 1) \o <<r>> \o SubSeq(sorted, at, Len(sorted))

RECURSIVE SortFrom(_, _, _)
SortFrom(results, i, sorted) ==
    IF i > Len(results) THEN sorted
    ELSE SortFrom(results, i + 1, InsertByRelevance(sorted, results[i]))

\* the results returned in scoring order, the sort left out
SortByRelevanceSkipped(results) == results

SortByRelevance(results) == SortFrom(results, 1, <<>>)

\* the relevance threshold of the local search
PassesThreshold(relevanceScore) == RLess(Milli(100), relevanceScore)

RECURSIVE ScoreAll(_, _, _, _)
ScoreAll(data, searchTerms, query, i) ==
    IF i > Len(data) THEN <<>>
    ELSE LET relevanceScore == calculateRelevanceScore(data[i], searchTerms, query)
         IN (IF PassesThreshold(relevanceScore)
             THEN <<WithSearchFields(data[i], relevanceScore, query)>>
             ELSE <<>>)
            \o ScoreAll(data, searchTerms, query, i + 1)

\* the profiles with the search fields written into them, no copy made
ProfilesScoredInPlace(data, query) ==
    LET searchTerms == extractSearchTerms(query)
        Scored(alumni) ==
            LET relevanceScore == calculateRelevanceScore(alumni, searchTerms, query)
            IN IF PassesThreshold(relevanceScore)
               THEN WithSearchFields(alumni, relevanceScore, query)
               ELSE alumni
    IN [i \in 1..Len(data) |-> Scored(data[i])]

\* what performLocalSearch leaves in the array it reads: forEach only reads
\* the profiles, the spread copies them, and push and sort work on `results`
ProfilesAfterSearch(data, query) == data

\* performLocalSearch on the two arrays it touches: app.alumniData and the
\* array `results` that it creates, fills, sorts and returns
LocalSearchArrays(data, query) ==
    LET threw == \E i \in 1..Len(data) : ScoreThrows(data[i])
    IN [alumniData |-> ProfilesAfterSearch(data, query),
        threw |-> threw,
        results |-> IF threw THEN <<>>
                    ELSE SortByRelevance(ScoreAll(data, extractSearchTerms(query),
                                                  query, 1))]

performLocalSearch(data, query) == LocalSearchArrays(data, query).results

\* Math.max(0.9 - (index * 0.1), 0.1), index counted from 0
PositionRelevance(index) == RMax(Rat(900 - index * 100, 1000), Milli(100))

RECURSIVE RankFrom(_, _, _)
RankFrom(results, query, i) ==
    IF i > Len(results) THEN <<>>
    ELSE <<WithSearchFields(results[i], PositionRelevance(i - 1), query)>>
         \o RankFrom(results, query, i + 1)

\* parseAISearchResults for a response that parses to the array `ids`
parseAISearchResults(data, ids, query) ==
    LET Listed(alumni) == Has(alumni, "id") /\ alumni.id \in ids
    IN RankFrom(SelectSeq(data, Listed), query, 1)

(***************************************************************************)
(* The cache, a Map: entries in insertion order                            *)
(***************************************************************************)

MapKeys(m) == [i \in 1..Len(m) |-> m[i].key]
MapHas(m, k) == \E i \in 1..Len(m) : m[i].key = k
MapGet(m, k) == m[CHOOSE i \in 1..Len(m) : m[i].key = k].value
\* Map.prototype.set: a present key keeps its place, a new key goes last
MapSet(m, k, v) ==
    IF MapHas(m, k)
    THEN [i \in 1..Len(m) |-> IF m[i].key = k THEN [key |-> k, value |-> v] ELSE m[i]]
    ELSE Append(m, [key |-> k, value |-> v])
\* Map.prototype.delete
MapDelete(m, k) == LET Other(e) == e.key # k IN SelectSeq(m, Other)

maxCacheSize == 100

\* the size test off by one
CacheFullOffByOne(cache) == Len(cache) > maxCacheSize

\* the condition under which cacheSearchResults drops an entry
CacheFull(cache) == Len(cache) >= maxCacheSize

\* dropping the newest key instead
NewestKey(cache) == cache[Len(cache)].key

\* the key cacheSearchResults drops: searchCache.keys().next().value
FirstKey(cache) == cache[1].key

\* the first statement of cacheSearchResults: limit the cache size
EvictOldest(cache) ==
    IF CacheFull(cache) THEN MapDelete(cache, FirstKey(cache)) ELSE cache

\* the size limited, the results not stored
cacheSearchResultsNotStored(cache, query, results) == EvictOldest(cache)

cacheSearchResults(cache, query, results) ==
    MapSet(EvictOldest(cache), query, results)

\* query.trim().toLowerCase()
NormalizeQuery(query) == ToLowerCase(Trim(query))

\* addToSearchHistory: drop the duplicate, put the entry first, keep 20
maxHistory == 20
addToSearchHistoryKeepingDuplicate(history, query, resultCount) ==
    LET added == <<[query |-> query, resultCount |-> resultCount]>> \o history
    IN IF Len(added) > maxHistory THEN SubSeq(added, 1, maxHistory) ELSE added
addToSearchHistory(history, query, resultCount) ==
    LET Other(item) == item.query # query
        added == <<[query |-> query, resultCount |-> resultCount]>>
                 \o SelectSeq(history, Other)
    IN IF Len(added) > maxHistory THEN SubSeq(added, 1, maxHistory) ELSE added

(***************************************************************************)
(* Filtering: src/js/main.js 868-941                                       *)
(***************************************************************************)

InList(xs, x) == \E i \in 1..Len(xs) : xs[i] = x
\* obj?.f for a group of a profile: the group, or an object without fields
Group(obj, f) == IF f \in DOMAIN obj THEN obj[f] ELSE <<>>

northAmerica == <<"usa", "canada", "mexico">>
europe == <<"uk", "germany", "france", "spain", "italy", "netherlands", "switzerland">>
asia == <<"japan", "china", "singapore", "india", "south korea">>

\* matchLocation(alumni.personal?.location, filter); an absent country is
\* in none of the lists
matchLocation(personal, filter) ==
    IF "location" \notin DOMAIN personal THEN FALSE
    ELSE LET location == personal.location
             known == "country" \in DOMAIN location
             country == IF known THEN ToLowerCase(location.country) ELSE ""
         IN CASE filter = "north-america" -> known /\ InList(northAmerica, country)
              [] filter = "europe" -> known /\ InList(europe, country)
              [] filter = "asia" -> known /\ InList(asia, country)
              [] filter = "other" ->
                    ~(known /\ InList(northAmerica \o europe \o asia, country))
              [] OTHER -> TRUE

\* matchYear(alumni.personal?.graduation_year, filter)
matchYear(personal, filter) ==
    IF "graduation_year" \notin DOMAIN personal \/ personal.graduation_year = 0 THEN FALSE
    ELSE LET year == personal.graduation_year
         IN CASE filter = "2020-2024" -> year >= 2020 /\ year <= 2024
              [] filter = "2015-2019" -> year >= 2015 /\ year <= 2019
              [] filter = "2010-2014" -> year >= 2010 /\ year <= 2014
              [] filter = "before-2010" -> year < 2010
              [] OTHER -> TRUE

\* the cases of the switch in filterData
FilterCase(alumni, key, value) ==
    LET personal == Group(alumni, "personal")
        professional == Group(alumni, "professional")
        networking == Group(alumni, "networking")
        summit == Group(alumni, "summit_2025")
        offering == IF "offering" \in DOMAIN networking THEN networking.offering ELSE <<>>
        role == IF "current_role" \in DOMAIN professional
                THEN ToLowerCase(professional.current_role) ELSE ""
    IN CASE key = "industry" ->
              "industry" \in DOMAIN professional /\ professional.industry = value
         [] key = "location" -> matchLocation(personal, value)
         [] key = "year" -> matchYear(personal, value)
         [] key = "experience" ->
              "experience_level" \in DOMAIN professional
              /\ professional.experience_level = value
         [] key = "attending" -> "attending" \in DOMAIN summit /\ summit.attending = TRUE
         [] key = "available" ->
              "availability" \in DOMAIN networking /\ networking.availability = "available"
         [] key = "mentors" -> InList(offering, "advice") \/ InList(offering, "mentorship")
         [] key = "entrepreneurs" ->
              "current_role" \in DOMAIN professional
              /\ (Includes(role, "founder") \/ Includes(role, "ceo")
                  \/ Includes(role, "entrepreneur"))
         [] OTHER -> TRUE

\* the test of one entry of the filters object
EntryPasses(alumni, key, value) ==
    IF value = "" \/ value = "all" THEN TRUE ELSE FilterCase(alumni, key, value)

\* app.filterData(filters): the profiles that pass every entry
filterData(data, filters) ==
    LET Passes(alumni) == \A key \in DOMAIN filters : EntryPasses(alumni, key, filters[key])
    IN SelectSeq(data, Passes)

(***************************************************************************)
(* Animations: src/README.md 110-1059 (class AnimationsManager)            *)
(***************************************************************************)

\* adjustSettingsForPerformance (181-203); 'high' leaves the settings alone
adjustSettingsForPerformance(current, mode) ==
    CASE mode = "low" ->
           [current EXCEPT !.enableParticles = FALSE, !.enableConnections = FALSE,
                           !.enableMorphing = FALSE, !.enableParallax = FALSE,
                           !.maxAnimations = 10]
      [] mode = "medium" ->
           [current EXCEPT !.enableParticles = TRUE, !.enableConnections = FALSE,
                           !.enableMorphing = FALSE, !.enableParallax = TRUE,
                           !.maxAnimations = 25]
      [] OTHER -> current

\* degradePerformance (238-256), as the mode and the settings it leaves
degradePerformance(current, mode) ==
    CASE mode = "high" ->
           [mode |-> "medium",
            settings |-> [current EXCEPT !.enableConnections = FALSE,
                                         !.enableMorphing = FALSE]]
      [] mode = "medium" ->
           [mode |-> "low",
            settings |-> [current EXCEPT !.enableParticles = FALSE,
                                         !.enableParallax = FALSE]]
      [] OTHER -> [mode |-> mode, settings |-> current]

\* upgradePerformance (261-274)
upgradePerformance(current, mode) ==
    IF mode = "low"
    THEN [mode |-> "medium",
          settings |-> [current EXCEPT !.enableParticles = TRUE, !.enableParallax = TRUE]]
    ELSE IF mode = "medium"
    THEN [mode |-> "high",
          settings |-> [current EXCEPT !.enableConnections = TRUE,
                                       !.enableMorphing = TRUE]]
    ELSE [mode |-> mode, settings |-> current]

\* adjustForReducedMotion (315-330): every key that starts with 'enable'
adjustForReducedMotion(current, mode) ==
    IF current.reducedMotion
    THEN [current EXCEPT !.enableParticles = FALSE, !.enableConnections = FALSE,
                         !.enableMorphing = FALSE, !.enableParallax = FALSE]
    ELSE adjustSettingsForPerformance(current, mode)

\* the types executeAnimation dispatches (442-464)
animationTypes == {"cardEntrance", "cardExit", "cardHover", "cardCluster",
                   "connectionPulse", "searchPulse", "notificationSlide"}
\* README.md 761
queueLimit == 100

(***************************************************************************)
(* Inputs: the loaded profile lists, the queries, the remote answers       *)
(***************************************************************************)

DigitChars == "0123456789"
RECURSIVE Digits(_)
Digits(n) ==
    IF n < 10 THEN CharAt(DigitChars, n + 1)
    ELSE Digits(n \div 10) \o CharAt(DigitChars, (n % 10) + 1)

\* a directory with complete, partial and empty profiles
DataSummit ==
    << [id |-> "a1",
        personal |-> [name |-> "Ann Lee",
                      location |-> [city |-> "London", country |-> "UK"]],
        professional |-> [current_role |-> "Founder & CEO", company |-> "Acme",
                          industry |-> "technology",
                          expertise_tags |-> <<"product", "AI">>],
        networking |-> [goals |-> <<"mentorship">>, offering |-> <<"advice">>]],
       [id |-> "a2",
        personal |-> [name |-> "Ann Ray", location |-> [city |-> "Tokyo"]],
        professional |-> [current_role |-> "Engineer", company |-> "Bolt",
                          industry |-> "finance"]],
       [id |-> "a3"],
       [id |-> "a4",
        personal |-> [name |-> "Ann",
                      location |-> [city |-> "London", country |-> "UK"]],
        professional |-> [current_role |-> "CEO", company |-> "Ann Advice",
                          industry |-> "technology",
                          expertise_tags |-> <<"technology">>],
        networking |-> [goals |-> <<"advice">>, offering |-> <<"connections">>]] >>

\* a longer directory of profiles that carry a name only
BulkSize == 10
DataBulk ==
    [i \in 1..BulkSize |-> [id |-> "b" \o Digits(i),
                            personal |-> [name |-> "Ann " \o Digits(i)]]]

Datasets == {DataSummit, DataBulk, <<>>}

\* what the speech recogniser or the input field can hand to performSearch
Transcripts == {"ann", " Ann", "undefined"}

\* the n-th query of a long browsing session
SessionQuery(n) == "ray " \o Digits(n)

AllIds(data) == {data[i].id : i \in {k \in 1..Len(data) : Has(data[k], "id")}}

\* how a remote request can end: the request or its envelope fails, the
\* content is no JSON array, or the content is an array of ids
AIOutcomes(data) ==
    {[kind |-> "error", ids |-> {}], [kind |-> "unparsable", ids |-> {}],
     [kind |-> "ids", ids |-> AllIds(data)]}

\* every query the specifications below hand to performSearch
MaxSessionCalls == 104
KnownQueries == Transcripts \cup {SessionQuery(n) : n \in 1..(MaxSessionCalls + 1)}

\* performLocalSearch tabulated over those inputs, so that a search asked
\* twice is computed once; LocalSearch is performLocalSearch
LocalSearchTable ==
    [data \in Datasets |-> [query \in KnownQueries |-> LocalSearchArrays(data, query)]]
LocalArrays(data, query) ==
    IF data \in Datasets /\ query \in KnownQueries
    THEN LocalSearchTable[data][query]
    ELSE LocalSearchArrays(data, query)
LocalSearch(data, query) == LocalArrays(data, query).results

(***************************************************************************)
(* State                                                                   *)
(***************************************************************************)

VARIABLES
    alumniData,      \* app.alumniData
    filteredData,    \* app.filteredData
    searchMode,      \* app.searchMode
    currentQuery,    \* SearchManager.currentQuery
    searchCache,     \* SearchManager.searchCache
    isSearching,     \* SearchManager.isSearching
    loading,         \* the "searching" class of the input's parent
    useAI,           \* SearchManager.useAI
    openAIApiKey,    \* SearchManager.openAIApiKey ("" for null)
    failedRequests,  \* SearchManager.failedRequests
    searchHistory,   \* SearchManager.searchHistory
    inflight,        \* the performSearch calls suspended at their await
    calls,           \* history: performSearch calls made
    lastCall,        \* history: what the latest performSearch call met and did
    shown,           \* history: the list the latest displaySearchResults got
    lastDone,        \* history: normalized query of the call that completed last,
                     \*          "" once anything else has happened since
    insertions,      \* history: entries created in the cache so far
    insertedAt,      \* history: when each cached key's entry was created
    evictLog,        \* history: the latest eviction
    evictedKeys,     \* history: keys evicted and not cached again since
    lastHit,         \* history: the latest key served from the cache, and when
    errorNotified,   \* history: handleSearchError has shown its notification
    scoreRuns,       \* history: per normalized query, the runs of the local
                     \*          scorer since its cache entry was last evicted
    latestRequest,   \* history: the number of the latest performSearch call, and
                     \*          whether clearSearch has run since it was made
    scoring,         \* one application of calculateRelevanceScore: input, result
    distances,       \* one pair of strings and levenshteinDistance both ways round
    searchTimeout,   \* SearchManager.searchTimeout: the id setTimeout gave (0 for null)
    timers,          \* the debounce timers that are set and have not fired
    typed,           \* history: the latest input event, and the time since
    fired,           \* history: the latest search a debounce timer started
    retrying,        \* the requests retryFailedRequests has yet to search again
    activeFilters,   \* FiltersManager.activeFilters
    filterTimers,    \* the 150 ms timers of applyFilters that have not fired
    performanceMode, \* AnimationsManager.performanceMode
    settings,        \* AnimationsManager.settings
    animationQueue,  \* AnimationsManager.animationQueue
    activeAnimations,\* AnimationsManager.activeAnimations: its keys
    animLog          \* history: animations queued, taken off the queue, dispatched

appVars == <<alumniData, filteredData, searchMode>>
mgrVars == <<currentQuery, searchCache, isSearching, loading, useAI, openAIApiKey,
             failedRequests, searchHistory, inflight>>
histVars == <<calls, lastCall, shown, lastDone, insertions, insertedAt, evictLog,
              evictedKeys, lastHit, errorNotified, scoreRuns, latestRequest>>
\* what the search manager's operations leave alone
inputVars == <<searchTimeout, timers, typed, fired>>
filterVars == <<activeFilters, filterTimers>>
animVars == <<performanceMode, settings, animationQueue, activeAnimations, animLog>>
pageVars == <<retrying, filterVars, animVars>>
otherVars == <<distances, inputVars, pageVars>>
vars == <<appVars, mgrVars, histVars, scoring, otherVars>>

NoCall == [query |-> "", norm |-> "", hit |-> FALSE, scored |-> 0,
           successive |-> FALSE, prevShown |-> <<>>, displayed |-> <<>>,
           wasEvicted |-> FALSE, orderKept |-> TRUE]
NoShown == [valid |-> FALSE, query |-> "", norm |-> "", results |-> <<>>,
            hit |-> FALSE, fellBack |-> FALSE, stale |-> FALSE]
NoRequest == [call |-> 0, cleared |-> FALSE]
NoEviction == [key |-> "", wasOldest |-> TRUE, sizeBefore |-> 0, usedLater |-> FALSE,
               present |-> FALSE]
NoHit == [key |-> "", at |-> 0]
NoScoring == [alumni |-> EmptyObject, query |-> "", score |-> RZero, threw |-> FALSE,
              done |-> FALSE]
NoDistances == [str1 |-> "", str2 |-> "", forth |-> 0, back |-> 0, done |-> FALSE]
\* nothing but the search manager is at work
NoTyped == [count |-> 0, query |-> "", age |-> 0]
NoFired == [count |-> 0, query |-> "", latest |-> "", age |-> 0]
\* search.js 37-38
searchDebounceDelay == 300
InputIdle ==
    /\ searchTimeout = 0
    /\ timers = {}
    /\ typed = NoTyped
    /\ fired = NoFired
\* filters.js 12-19
NoFilters == [quick |-> "all", industry |-> "", location |-> "", year |-> "",
              experience |-> "", search |-> ""]
FiltersIdle == activeFilters = NoFilters /\ filterTimers = 0
\* README.md 111-128: the fields as the constructor sets them
DefaultSettings == [enableParticles |-> TRUE, enableConnections |-> TRUE,
                    enableMorphing |-> TRUE, enableParallax |-> TRUE,
                    maxAnimations |-> 50, reducedMotion |-> FALSE]
NoAnimLog == [queued |-> 0, shifted |-> 0, dispatched |-> 0]
AnimationsIdle ==
    /\ performanceMode = "auto"
    /\ settings = DefaultSettings
    /\ animationQueue = <<>>
    /\ activeAnimations = {}
    /\ animLog = NoAnimLog
PageIdle == retrying = <<>> /\ FiltersIdle /\ AnimationsIdle
OthersIdle == distances = NoDistances /\ InputIdle /\ PageIdle

\* The state once the data is loaded and the manager constructed
\* (main.js 121-137, search.js 10-44 and 1066-1077).  The source ships with
\* the remote search switched off and says how production switches it on.
InitWith(data, ai) ==
    /\ alumniData = data
    /\ filteredData = data
    /\ searchMode = FALSE
    /\ currentQuery = ""
    /\ searchCache = <<>>
    /\ isSearching = FALSE
    /\ loading = FALSE
    /\ useAI = ai
    /\ openAIApiKey = IF ai THEN "your-openai-api-key" ELSE ""
    /\ failedRequests = <<>>
    /\ searchHistory = <<>>
    /\ inflight = <<>>
    /\ calls = 0
    /\ lastCall = NoCall
    /\ shown = NoShown
    /\ lastDone = ""
    /\ insertions = 0
    /\ insertedAt = <<>>
    /\ evictLog = NoEviction
    /\ evictedKeys = {}
    /\ lastHit = NoHit
    /\ errorNotified = FALSE
    /\ scoreRuns = <<>>
    /\ latestRequest = NoRequest

Init == /\ \E data \in Datasets, ai \in BOOLEAN : InitWith(data, ai)
        /\ scoring = NoScoring
        /\ OthersIdle

(***************************************************************************)
(* Operations                                                              *)
(***************************************************************************)

KeySet(m) == {m[i].key : i \in 1..Len(m)}

\* one more run of the local scorer for the normalized query k
OneMoreRun(runs, k) ==
    [x \in DOMAIN runs \cup {k} |->
        IF x = k THEN (IF k \in DOMAIN runs THEN runs[k] ELSE 0) + 1 ELSE runs[x]]

\* this.useAI && this.openAIApiKey
AIEnabled == useAI /\ openAIApiKey # ""

\* a call whose awaited search has settled: its continuation is a queued
\* microtask, which runs before the next event is handled
Resolved(call) == call.stage = "resolved"
MicrotaskPending == \E i \in 1..Len(inflight) : Resolved(inflight[i])

\* the test left without its trim
BlankQueryUntrimmed(query) == query = ""

\* !query || query.trim().length === 0
BlankQuery(query) == query = "" \/ Len(Trim(query)) = 0

\* performSearch up to its first await.  cq is this.currentQuery as the
\* caller left it.
PerformSearch(query, isLiveSearch, cq) ==
    LET normalizedQuery == NormalizeQuery(query)
        successive == lastDone # "" /\ lastDone = normalizedQuery
    IN
    /\ calls' = calls + 1
    /\ UNCHANGED <<useAI, openAIApiKey, failedRequests, searchHistory, searchCache,
                   insertions, insertedAt, evictLog, evictedKeys, errorNotified,
                   scoring, distances>>
    /\ latestRequest' = [call |-> calls + 1, cleared |-> BlankQuery(query)]
    /\ IF BlankQuery(query)
       THEN \* clearSearch
            /\ UNCHANGED <<alumniData, lastHit, scoreRuns>>
            /\ currentQuery' = ""
            /\ searchMode' = FALSE
            /\ loading' = FALSE
            /\ filteredData' = alumniData
            /\ UNCHANGED <<isSearching, inflight>>
            /\ lastCall' = [NoCall EXCEPT !.query = query]
            /\ shown' = NoShown
            /\ lastDone' = ""
       ELSE IF MapHas(searchCache, normalizedQuery)
       THEN \* served from the cache: displaySearchResults(cachedResults, ...)
            LET cachedResults == MapGet(searchCache, normalizedQuery) IN
            /\ filteredData' = cachedResults
            /\ searchMode' = TRUE
            /\ currentQuery' = cq
            /\ UNCHANGED <<alumniData, isSearching, loading, inflight, scoreRuns>>
            /\ lastCall' = [query |-> query, norm |-> normalizedQuery, hit |-> TRUE,
                            scored |-> 0, successive |-> successive,
                            prevShown |-> shown.results, displayed |-> cachedResults,
                            wasEvicted |-> normalizedQuery \in evictedKeys,
                            orderKept |-> MapKeys(searchCache') = MapKeys(searchCache)]
            /\ shown' = [valid |-> TRUE, query |-> query, norm |-> normalizedQuery,
                         results |-> cachedResults, hit |-> TRUE, fellBack |-> FALSE,
                         stale |-> FALSE]
            /\ lastDone' = normalizedQuery
            /\ lastHit' = [key |-> normalizedQuery, at |-> insertions]
       ELSE \* a miss: the search starts and the call waits for it
            /\ isSearching' = TRUE
            /\ loading' = TRUE
            /\ currentQuery' = cq
            /\ inflight' = Append(inflight,
                   IF AIEnabled
                   THEN [query |-> query, isLiveSearch |-> isLiveSearch,
                         seq |-> calls + 1,
                         stage |-> "fetch", results |-> <<>>, threw |-> FALSE,
                         fellBack |-> FALSE]
                   ELSE [query |-> query, isLiveSearch |-> isLiveSearch,
                         seq |-> calls + 1,
                         stage |-> "resolved",
                         results |-> LocalSearch(alumniData, query),
                         threw |-> LocalArrays(alumniData, query).threw,
                         fellBack |-> FALSE])
            /\ alumniData' = IF AIEnabled THEN alumniData
                             ELSE LocalArrays(alumniData, query).alumniData
            /\ scoreRuns' = IF AIEnabled THEN scoreRuns
                            ELSE OneMoreRun(scoreRuns, normalizedQuery)
            /\ UNCHANGED <<filteredData, searchMode, shown>>
            /\ lastCall' = [query |-> query, norm |-> normalizedQuery, hit |-> FALSE,
                            scored |-> IF AIEnabled THEN 0 ELSE Len(alumniData),
                            successive |-> successive,
                            prevShown |-> shown.results, displayed |-> <<>>,
                            wasEvicted |-> normalizedQuery \in evictedKeys,
                            orderKept |-> TRUE]
            /\ lastDone' = ""
            /\ UNCHANGED lastHit

\* handleVoiceResult (956-968): a transcript that is not blank is searched as is
HandleVoiceResult(transcript) ==
    /\ ~MicrotaskPending
    /\ Trim(transcript) # ""
    /\ PerformSearch(transcript, FALSE, transcript)
    /\ UNCHANGED <<inputVars, pageVars>>

\* selectSuggestion (817-825): a suggestion whose text is not empty becomes
\* the current query and is searched
SelectSuggestion(text) ==
    /\ ~MicrotaskPending
    /\ text # ""
    /\ PerformSearch(text, FALSE, text)
    /\ UNCHANGED <<inputVars, pageVars>>

\* the keypress listener (91-96): Enter searches this.currentQuery
KeypressEnter ==
    /\ ~MicrotaskPending
    /\ PerformSearch(currentQuery, FALSE, currentQuery)
    /\ UNCHANGED <<inputVars, pageVars>>

\* clearTimeout(id): the timer of that id, if it is still set, is dropped
clearTimeoutIgnored(pending, id) == pending
clearTimeout(pending, id) == {t \in pending : t.id # id}

\* the 'input' listener (65-68) and handleSearchInput (145-172) up to the
\* return: the value is trimmed, the timer left by the previous input is
\* cleared, an empty query clears the search, any other shows the loading
\* state and sets a new timer
InputEvent(value) ==
    LET query == Trim(value)
        cleared == IF searchTimeout # 0 THEN clearTimeout(timers, searchTimeout)
                   ELSE timers
        id == typed.count + 1
    IN
    /\ ~MicrotaskPending
    /\ typed' = [count |-> typed.count + 1, query |-> query, age |-> 0]
    /\ lastDone' = ""
    /\ IF Len(query) = 0
       THEN \* clearSearch
            /\ currentQuery' = ""
            /\ searchMode' = FALSE
            /\ loading' = FALSE
            /\ filteredData' = alumniData
            /\ shown' = NoShown
            /\ latestRequest' = [latestRequest EXCEPT !.cleared = TRUE]
            /\ timers' = cleared
            /\ UNCHANGED searchTimeout
       ELSE /\ currentQuery' = query
            /\ loading' = TRUE
            /\ searchTimeout' = id
            /\ timers' = cleared \cup {[id |-> id, query |-> query,
                                        remaining |-> searchDebounceDelay]}
            /\ UNCHANGED <<searchMode, filteredData, shown, latestRequest>>
    /\ UNCHANGED <<alumniData, searchCache, isSearching, useAI, openAIApiKey,
                   failedRequests, searchHistory, inflight, calls, lastCall,
                   insertions, insertedAt, evictLog, evictedKeys, lastHit,
                   errorNotified, scoreRuns, scoring, distances, fired, pageVars>>

\* time passes: the timers that are set come closer to firing
Elapse(step) ==
    LET Less(ms) == IF ms > step THEN ms - step ELSE 0
        More(ms) == IF ms + step < searchDebounceDelay THEN ms + step
                    ELSE searchDebounceDelay
    IN
    /\ ~MicrotaskPending
    /\ \E t \in timers : t.remaining > 0
    /\ timers' = {[t EXCEPT !.remaining = Less(@)] : t \in timers}
    /\ typed' = [typed EXCEPT !.age = More(@)]
    /\ UNCHANGED <<appVars, mgrVars, histVars, scoring, distances, searchTimeout, fired,
                   pageVars>>

\* the callback of a debounce timer (162-171); the suggestions it updates
\* are not part of the state
TimerFires(t) ==
    /\ ~MicrotaskPending
    /\ t \in timers /\ t.remaining = 0
    /\ timers' = timers \ {t}
    /\ UNCHANGED <<searchTimeout, typed, pageVars>>
    /\ IF Len(t.query) >= 2 /\ Len(t.query) >= 3
       THEN /\ PerformSearch(t.query, TRUE, currentQuery)
            /\ fired' = [count |-> fired.count + 1, query |-> t.query,
                         latest |-> typed.query, age |-> typed.age]
       ELSE UNCHANGED <<appVars, mgrVars, histVars, scoring, distances, fired>>

\* handleOnlineStatus (main.js 556-564) and retryFailedRequests (1082-1098)
\* up to the forEach: the list is copied and emptied
RetryFailedRequests ==
    /\ ~MicrotaskPending
    /\ retrying = <<>>
    /\ Len(failedRequests) # 0
    /\ retrying' = failedRequests
    /\ failedRequests' = <<>>
    /\ UNCHANGED <<appVars, currentQuery, searchCache, isSearching, loading, useAI,
                   openAIApiKey, searchHistory, inflight, histVars, scoring,
                   distances, inputVars, filterVars, animVars>>

\* one turn of the forEach: performSearch(request.query) up to its await.
\* The turns follow one another within the same event, so nothing else
\* happens while requests are left.
RetryRequest ==
    /\ retrying # <<>>
    /\ retrying' = Tail(retrying)
    /\ PerformSearch(Head(retrying).query, FALSE, currentQuery)
    /\ UNCHANGED <<inputVars, filterVars, animVars>>

\* FiltersManager.applyFilters (filters.js 286-296): a timer of 150 ms is set
ApplyFilters == filterTimers' = filterTimers + 1

\* FiltersManager.setQuickFilter (filters.js 92-121); the button classes, the
\* filter history, the notification and localStorage are not part of the state
SetQuickFilter(filter) ==
    /\ ~MicrotaskPending
    /\ activeFilters' = [activeFilters EXCEPT !.quick = filter]
    /\ ApplyFilters
    /\ UNCHANGED <<appVars, mgrVars, histVars, scoring, distances, inputVars, retrying,
                   animVars>>

\* FiltersManager.setAdvancedFilter (filters.js 126-140)
SetAdvancedFilter(type, value) ==
    /\ ~MicrotaskPending
    /\ activeFilters' = [activeFilters EXCEPT ![type] = value]
    /\ ApplyFilters
    /\ UNCHANGED <<appVars, mgrVars, histVars, scoring, distances, inputVars, retrying,
                   animVars>>

\* the callback of a timer of applyFilters: app.filterData(this.activeFilters)
FilterTimerFires ==
    /\ ~MicrotaskPending
    /\ filterTimers > 0
    /\ filterTimers' = filterTimers - 1
    /\ filteredData' = filterData(alumniData, activeFilters)
    /\ UNCHANGED <<alumniData, searchMode, mgrVars, histVars, scoring, distances,
                   inputVars, retrying, activeFilters, animVars>>

\* what the animation events leave alone
notAnimVars == <<appVars, mgrVars, histVars, scoring, distances, inputVars, retrying,
                 filterVars>>

\* measurePerformance (212-229) at the end of a second, the frame rate being
\* fps
MeasurePerformance(fps) ==
    LET after == IF fps < 30 /\ performanceMode # "low"
                 THEN degradePerformance(settings, performanceMode)
                 ELSE IF fps > 55 /\ performanceMode # "high"
                 THEN upgradePerformance(settings, performanceMode)
                 ELSE [mode |-> performanceMode, settings |-> settings]
    IN /\ performanceMode' = after.mode
       /\ settings' = after.settings
       /\ UNCHANGED <<animationQueue, activeAnimations, animLog, notAnimVars>>

\* the 'change' listener of the reduced-motion media query (301-304)
ReducedMotionChange(matches) ==
    /\ settings' = adjustForReducedMotion([settings EXCEPT !.reducedMotion = matches],
                                          performanceMode)
    /\ UNCHANGED <<performanceMode, animationQueue, activeAnimations, animLog, notAnimVars>>

\* queueAnimation (760-767); the id is new
QueueAnimation(type) ==
    /\ IF Len(animationQueue) < queueLimit
       THEN /\ animationQueue' = Append(animationQueue,
                                        [id |-> animLog.queued + 1, type |-> type])
            /\ animLog' = [animLog EXCEPT !.queued = @ + 1]
       ELSE UNCHANGED <<animationQueue, animLog>>
    /\ UNCHANGED <<performanceMode, settings, activeAnimations, notAnimVars>>

\* one frame of the animation loop (403-412): processAnimationQueue (418-429)
\* and executeAnimation (434-468)
AnimationFrame ==
    /\ Len(animationQueue) # 0
    /\ LET animation == Head(animationQueue)
           atMax == Cardinality(activeAnimations) >= settings.maxAnimations
       IN /\ animationQueue' = Tail(animationQueue)
          /\ activeAnimations' = IF atMax THEN activeAnimations
                                  ELSE activeAnimations \cup {animation.id}
          /\ animLog' = [animLog EXCEPT
                            !.shifted = @ + 1,
                            !.dispatched = IF ~atMax /\ animation.type \in animationTypes
                                           THEN @ + 1 ELSE @]
    /\ UNCHANGED <<performanceMode, settings, notAnimVars>>

\* cleanupExpiredAnimations (1025-1034), more than 10 s after the latest
\* animation was stored; nothing in the source calls it
CleanupExpiredAnimations ==
    /\ activeAnimations # {}
    /\ activeAnimations' = {}
    /\ UNCHANGED <<performanceMode, settings, animationQueue, animLog, notAnimVars>>

\* the failure rethrown instead of answered by the local search
FallbackRethrown(data, query) == [alumniData |-> data, threw |-> TRUE, results |-> <<>>]

\* the catch clauses of performAISearch (329-335) and of parseAISearchResults
\* (388-392): return this.performLocalSearch(query)
FallbackSearch(data, query) == LocalArrays(data, query)

\* performAISearch from the fetch on (297-335): the request of call i ends
AISettle(i, outcome) ==
    /\ ~MicrotaskPending
    /\ inflight[i].stage = "fetch"
    /\ LET query == inflight[i].query
           fellBack == outcome.kind # "ids"
           fallback == FallbackSearch(alumniData, query)
       IN /\ inflight' = [inflight EXCEPT ![i] =
                 [@ EXCEPT !.stage = "resolved",
                           !.results = IF fellBack THEN fallback.results
                                       ELSE parseAISearchResults(alumniData,
                                                                 outcome.ids, query),
                           !.threw = fellBack /\ fallback.threw,
                           !.fellBack = fellBack]]
          /\ failedRequests' = IF outcome.kind = "error"
                               THEN Append(failedRequests, [query |-> query])
                               ELSE failedRequests
          /\ alumniData' = IF fellBack THEN fallback.alumniData ELSE alumniData
          /\ scoreRuns' = IF fellBack THEN OneMoreRun(scoreRuns, NormalizeQuery(query))
                          ELSE scoreRuns
    /\ UNCHANGED <<filteredData, searchMode, currentQuery, searchCache, isSearching,
                   loading, useAI, openAIApiKey, searchHistory, calls, lastCall, shown,
                   lastDone, insertions, insertedAt, evictLog, evictedKeys, lastHit,
                   errorNotified, latestRequest, scoring, otherVars>>

\* performSearch after its await (266-283): cache, display, history, or the
\* catch clause when the search threw; finally
FinishSearch ==
    /\ MicrotaskPending
    /\ LET i == CHOOSE k \in 1..Len(inflight) :
                    Resolved(inflight[k]) /\ \A j \in 1..(k - 1) : ~Resolved(inflight[j])
           call == inflight[i]
           normalizedQuery == NormalizeQuery(call.query)
           before == KeySet(searchCache)
           kept == KeySet(EvictOldest(searchCache))
           gone == before \ kept
       IN /\ isSearching' = FALSE
          /\ loading' = FALSE
          /\ inflight' = SubSeq(inflight, 1, i - 1) \o SubSeq(inflight, i + 1, Len(inflight))
          /\ IF call.threw
             THEN \* handleSearchError (867-878)
                  /\ errorNotified' = TRUE
                  /\ filteredData' = alumniData
                  /\ lastDone' = ""
                  /\ UNCHANGED <<searchCache, searchMode, searchHistory, shown,
                                 insertedAt, insertions, evictLog, evictedKeys,
                                 scoreRuns>>
             ELSE \* the search returned
                  /\ searchCache' = cacheSearchResults(searchCache, normalizedQuery, call.results)
                  /\ filteredData' = call.results
                  /\ searchMode' = TRUE
                  /\ searchHistory' = IF ~call.isLiveSearch
                                      THEN addToSearchHistory(searchHistory, call.query,
                                                              Len(call.results))
                                      ELSE searchHistory
                  /\ shown' = [valid |-> TRUE, query |-> call.query, norm |-> normalizedQuery,
                               results |-> call.results, hit |-> FALSE,
                               fellBack |-> call.fellBack,
                               stale |-> \/ call.seq # latestRequest.call
                                         \/ latestRequest.cleared]
                  /\ lastDone' = normalizedQuery
                  /\ insertedAt' = [k \in KeySet(searchCache') |->
                                       IF k \in kept THEN insertedAt[k] ELSE insertions + 1]
                  /\ insertions' = insertions + Cardinality(KeySet(searchCache') \ kept)
                  /\ evictLog' = IF gone = {} THEN evictLog
                                 ELSE [key |-> CHOOSE g \in gone : TRUE,
                                       wasOldest |-> \A g \in gone : \A k \in before :
                                                        insertedAt[g] <= insertedAt[k],
                                       sizeBefore |-> Len(searchCache),
                                       \* the evicted key was served from the cache after
                                       \* another key still cached had last been touched
                                       usedLater |-> \E g \in gone : \E k \in kept :
                                                        /\ lastHit.key = g
                                                        /\ insertedAt[g] < insertedAt[k]
                                                        /\ insertedAt[k] <= lastHit.at,
                                       \* the key stored was in the cache already
                                       present |-> normalizedQuery \in before]
                  /\ evictedKeys' = (evictedKeys \cup gone) \ KeySet(searchCache')
                  /\ scoreRuns' = [k \in DOMAIN scoreRuns \ gone |-> scoreRuns[k]]
                  /\ UNCHANGED errorNotified
    /\ UNCHANGED <<alumniData, currentQuery, useAI, openAIApiKey, failedRequests,
                   calls, lastCall, lastHit, latestRequest, scoring, otherVars>>

(***************************************************************************)
(* Specifications                                                          *)
(***************************************************************************)

MaxCalls == 3
MaxInflight == 2
MayCall == calls < MaxCalls /\ Len(inflight) < MaxInflight

Next ==
    \/ MayCall /\ \E t \in Transcripts : HandleVoiceResult(t)
    \/ MayCall /\ KeypressEnter
    \/ \E i \in 1..Len(inflight) : \E o \in AIOutcomes(alumniData) : AISettle(i, o)
    \/ FinishSearch

Spec == Init /\ [][Next]_vars

\* A long browsing session on the local path: the visitor keeps asking new
\* queries and, once the cache is about to fill, comes back to the first one.

SessionInit == InitWith(DataSummit, FALSE) /\ scoring = NoScoring /\ OthersIdle

SessionNext ==
    \/ calls < MaxSessionCalls /\ HandleVoiceResult(SessionQuery(insertions + 1))
    \/ calls < MaxSessionCalls /\ Len(searchCache) >= maxCacheSize - 1
       /\ HandleVoiceResult(SessionQuery(1))
    \/ FinishSearch

SpecSession == SessionInit /\ [][SessionNext]_vars

\* The scorer on its own: one profile, one query, one application.  The
\* profiles are a complete profile with every subset of its optional fields
\* left out, a group being absent, or present and empty, once it has no field.
FullProfile == DataSummit[4]
LeafFields == {"name", "city", "country", "current_role", "company", "industry",
               "expertise_tags", "goals", "offering"}

Restrict(obj, fields) == [f \in DOMAIN obj \cap fields |-> obj[f]]
\* obj with group g (when it has one) replaced by sub, or left out when sub
\* is empty and empty groups are not kept
WithGroup(obj, g, sub, keepEmpty) ==
    [f \in (DOMAIN obj \ {g}) \cup (IF DOMAIN sub # {} \/ keepEmpty THEN {g} ELSE {}) |->
        IF f = g THEN sub ELSE obj[f]]

ProfileWith(fields, keepEmpty) ==
    LET location == Restrict(FullProfile.personal.location, fields)
        personal == WithGroup(Restrict(FullProfile.personal, fields), "location",
                              location, keepEmpty)
        professional == Restrict(FullProfile.professional, fields)
        networking == Restrict(FullProfile.networking, fields)
    IN WithGroup(WithGroup(WithGroup([id |-> FullProfile.id],
                                     "personal", personal, keepEmpty),
                           "professional", professional, keepEmpty),
                 "networking", networking, keepEmpty)

ScoreQueries ==
    Transcripts \cup {"ceo ann advice technology london", "a of", "fine", "Tokyo",
                      "technology", "real estate", "founder", "an", "to  Ann\tle",
                      "engineers", "cofound"}

\* profiles that differ in how their industry is written
IndustryValues == {"technology", "Technology", "biotechnology", "real-estate"}
IndustryProfiles ==
    {[id |-> "p1", professional |-> [industry |-> industry]] :
        industry \in IndustryValues}
    \cup {[FullProfile EXCEPT !.professional.industry = industry] :
            industry \in IndustryValues}

\* profiles that differ in their role
RoleValues == {"Founder & CEO", "Co-founder", "Engineer"}
RoleProfiles ==
    {[id |-> "p2", professional |-> [current_role |-> role]] : role \in RoleValues}
    \cup {[FullProfile EXCEPT !.professional.current_role = role] : role \in RoleValues}

ScoreProfiles ==
    {ProfileWith(fields, keepEmpty) : fields \in SUBSET LeafFields, keepEmpty \in BOOLEAN}
    \cup IndustryProfiles \cup RoleProfiles

ScoreInit ==
    /\ InitWith(<<>>, FALSE)
    /\ \E alumni \in ScoreProfiles, query \in ScoreQueries :
          scoring = [alumni |-> alumni, query |-> query,
                     score |-> RZero, threw |-> FALSE, done |-> FALSE]
    /\ OthersIdle

\* calculateRelevanceScore(alumni, searchTerms, originalQuery), the terms
\* extracted from the query as performLocalSearch does
ApplyScore ==
    /\ ~scoring.done
    /\ scoring' = IF ScoreThrows(scoring.alumni)
                  THEN [scoring EXCEPT !.threw = TRUE, !.done = TRUE]
                  ELSE [scoring EXCEPT
                           !.score = calculateRelevanceScore(scoring.alumni,
                                         extractSearchTerms(scoring.query),
                                         scoring.query),
                           !.done = TRUE]
    /\ UNCHANGED <<appVars, mgrVars, histVars, otherVars>>

ScoreNext == ApplyScore

SpecScore == ScoreInit /\ [][ScoreNext]_vars

\* Searches among which some are blank: a suggestion whose text is white
\* space, Enter on the emptied input.
SuggestionTexts == {" ", "  ", "ann"}

ClearInit ==
    /\ \E ai \in BOOLEAN : InitWith(DataSummit, ai)
    /\ scoring = NoScoring
    /\ OthersIdle

ClearNext ==
    \/ MayCall /\ \E t \in Transcripts : HandleVoiceResult(t)
    \/ MayCall /\ \E text \in SuggestionTexts : SelectSuggestion(text)
    \/ MayCall /\ KeypressEnter
    \/ \E i \in 1..Len(inflight) : \E o \in AIOutcomes(alumniData) : AISettle(i, o)
    \/ FinishSearch

SpecClear == ClearInit /\ [][ClearNext]_vars

\* The local search over a directory of one profile that lacks any
\* combination of its optional fields and groups, or over an empty directory.
OptionalDatasets ==
    {<<>>} \cup {<<ProfileWith(fields, keepEmpty)>> :
                    fields \in SUBSET LeafFields, keepEmpty \in BOOLEAN}

\* queries that reach the name, the location and every other signal
OptionalQueries == {"ann", "Tokyo", "ceo ann advice technology london"}

MaxOptionalCalls == 1

OptionalInit ==
    /\ \E data \in OptionalDatasets : InitWith(data, FALSE)
    /\ scoring = NoScoring
    /\ OthersIdle

OptionalNext ==
    \/ calls < MaxOptionalCalls /\ \E t \in OptionalQueries : HandleVoiceResult(t)
    \/ FinishSearch

SpecOptional == OptionalInit /\ [][OptionalNext]_vars

\* A session with the remote search on, whose replies are no JSON: the
\* visitor keeps asking new queries and, once the cache is about to fill,
\* repeats a query whose request is still pending.
MaxOverlapCalls == 103
UnparsableOutcomes(data) == {o \in AIOutcomes(data) : o.kind = "unparsable"}

OverlapInit == InitWith(DataSummit, TRUE) /\ scoring = NoScoring /\ OthersIdle

OverlapNext ==
    \/ calls < MaxOverlapCalls /\ inflight = <<>>
       /\ HandleVoiceResult(SessionQuery(insertions + 1))
    \/ calls < MaxOverlapCalls /\ Len(inflight) = 1 /\ inflight[1].stage = "fetch"
       /\ Len(searchCache) >= maxCacheSize - 2
       /\ HandleVoiceResult(inflight[1].query)
    \/ \E i \in 1..Len(inflight) : \E o \in UnparsableOutcomes(alumniData) : AISettle(i, o)
    \/ FinishSearch

SpecOverlap == OverlapInit /\ [][OverlapNext]_vars

\* Searches with the remote search on, some of which fail, and the
\* connection coming back.
RetryInit ==
    /\ \E data \in {DataSummit, <<>>} : InitWith(data, TRUE)
    /\ scoring = NoScoring
    /\ OthersIdle

RetryNext ==
    \/ retrying = <<>> /\ MayCall /\ \E t \in Transcripts : HandleVoiceResult(t)
    \/ retrying = <<>>
       /\ \E i \in 1..Len(inflight) : \E o \in AIOutcomes(alumniData) : AISettle(i, o)
    \/ retrying = <<>> /\ FinishSearch
    \/ RetryFailedRequests
    \/ RetryRequest

SpecRetry == RetryInit /\ [][RetryNext]_vars

\* levenshteinDistance on its own: two strings, the distance taken both
\* ways round.
LevAlphabet == {"a", "b"}
MaxLevLen == 3
RECURSIVE StringsUpTo(_)
StringsUpTo(n) ==
    IF n = 0 THEN {""}
    ELSE StringsUpTo(n - 1)
         \cup {s \o c : s \in {t \in StringsUpTo(n - 1) : Len(t) = n - 1}, c \in LevAlphabet}
LevStrings ==
    StringsUpTo(MaxLevLen) \cup {"kitten", "sitting", "founder", "co-founder", "cofound"}

LevInit ==
    /\ InitWith(<<>>, FALSE)
    /\ scoring = NoScoring
    /\ \E str1 \in LevStrings, str2 \in LevStrings :
          distances = [NoDistances EXCEPT !.str1 = str1, !.str2 = str2]
    /\ InputIdle /\ PageIdle

ApplyLevenshtein ==
    /\ ~distances.done
    /\ distances' = [distances EXCEPT
                        !.forth = levenshteinDistance(distances.str1, distances.str2),
                        !.back = levenshteinDistance(distances.str2, distances.str1),
                        !.done = TRUE]
    /\ UNCHANGED <<appVars, mgrVars, histVars, scoring, inputVars, pageVars>>

LevNext == ApplyLevenshtein

SpecLev == LevInit /\ [][LevNext]_vars

\* Typing in the search field: input events, the debounce timer, and the
\* searches the timer starts, local or remote.
InputValues == {"", " ", "a", "an", "ann", "ann ", "undefined"}
TimeSteps == {100, 200}
MaxInputs == 3

TypingInit ==
    /\ \E ai \in BOOLEAN : InitWith(DataSummit, ai)
    /\ scoring = NoScoring
    /\ OthersIdle

TypingNext ==
    \/ typed.count < MaxInputs /\ \E value \in InputValues : InputEvent(value)
    \/ \E step \in TimeSteps : Elapse(step)
    \/ \E t \in timers : TimerFires(t)
    \/ \E i \in 1..Len(inflight) : \E o \in AIOutcomes(alumniData) : AISettle(i, o)
    \/ FinishSearch

SpecTyping == TypingInit /\ [][TypingNext]_vars

\* A session that fills the search history, with the remote search on and
\* replies that are no JSON.  The visitor asks new queries one after the
\* other; when the history is empty, about to fill or full, the visitor may
\* also repeat a query whose request is still pending, or type a new query
\* in the field and let the debounce timer search it.
MaxHistoryCalls == 26
HistoryTurningPoint == Len(searchHistory) \in {0, 1, maxHistory - 1, maxHistory}

HistoryInit == InitWith(DataSummit, TRUE) /\ scoring = NoScoring /\ OthersIdle

HistoryNext ==
    \/ calls < MaxHistoryCalls /\ inflight = <<>> /\ timers = {}
       /\ HandleVoiceResult(SessionQuery(insertions + 1))
    \/ calls < MaxHistoryCalls /\ Len(inflight) = 1 /\ inflight[1].stage = "fetch"
       /\ ~inflight[1].isLiveSearch /\ HistoryTurningPoint
       /\ HandleVoiceResult(inflight[1].query)
    \/ calls < MaxHistoryCalls /\ inflight = <<>> /\ timers = {}
       /\ typed.count < MaxInputs /\ HistoryTurningPoint
       /\ InputEvent(SessionQuery(insertions + 1))
    \/ \E step \in TimeSteps : Elapse(step)
    \/ \E t \in timers : TimerFires(t)
    \/ \E i \in 1..Len(inflight) : \E o \in UnparsableOutcomes(alumniData) : AISettle(i, o)
    \/ FinishSearch

SpecHistory == HistoryInit /\ [][HistoryNext]_vars

\* The filter buttons and selects over a directory whose profiles differ in
\* what the filters test.
DataFilterable ==
    << [id |-> "f1",
        personal |-> [name |-> "Sarah Chen", graduation_year |-> 2022,
                      location |-> [city |-> "San Francisco", country |-> "USA"]],
        professional |-> [current_role |-> "Product Manager", industry |-> "technology",
                          experience_level |-> "mid"],
        networking |-> [availability |-> "available", offering |-> <<"mentorship">>],
        summit_2025 |-> [attending |-> TRUE]],
       [id |-> "f2",
        personal |-> [name |-> "Ann Lee", graduation_year |-> 2021,
                      location |-> [city |-> "London", country |-> "UK"]],
        professional |-> [current_role |-> "Founder & CEO", industry |-> "technology",
                          experience_level |-> "senior"],
        networking |-> [availability |-> "busy", offering |-> <<"advice">>],
        summit_2025 |-> [attending |-> FALSE]],
       [id |-> "f3",
        personal |-> [name |-> "Ray Ito", graduation_year |-> 2008,
                      location |-> [city |-> "Tokyo", country |-> "Japan"]],
        professional |-> [current_role |-> "Analyst", industry |-> "finance",
                          experience_level |-> "mid"],
        networking |-> [availability |-> "available", offering |-> <<"connections">>],
        summit_2025 |-> [attending |-> TRUE]],
       [id |-> "f4"] >>

QuickFilters == {"all", "attending", "available", "mentors", "entrepreneurs"}
AdvancedFilters ==
    {<<"industry", "">>, <<"industry", "technology">>,
     <<"location", "">>, <<"location", "europe">>, <<"location", "other">>,
     <<"year", "">>, <<"year", "2020-2024">>,
     <<"experience", "">>, <<"experience", "mid">>}
MaxFilterTimers == 2

FilterInit ==
    /\ InitWith(DataFilterable, FALSE)
    /\ scoring = NoScoring
    /\ OthersIdle

FilterNext ==
    \/ filterTimers < MaxFilterTimers /\ \E filter \in QuickFilters : SetQuickFilter(filter)
    \/ filterTimers < MaxFilterTimers
       /\ \E choice \in AdvancedFilters : SetAdvancedFilter(choice[1], choice[2])
    \/ FilterTimerFires

SpecFilter == FilterInit /\ [][FilterNext]_vars

\* The animations of the page: frame-rate measurements, changes of the
\* reduced-motion preference, animations queued and frames of the loop.
FrameRates == {20, 45, 60}
QueuedTypes == {"cardEntrance", "cardCluster"}
MaxQueued == 12
MaxWaiting == 2

\* after init() (134-141): the capabilities detected, the preference read
AnimationsInit ==
    /\ InitWith(<<>>, FALSE)
    /\ scoring = NoScoring
    /\ distances = NoDistances /\ InputIdle /\ retrying = <<>> /\ FiltersIdle
    /\ \E mode \in {"high", "medium", "low"}, matches \in BOOLEAN :
          /\ performanceMode = mode
          /\ settings = LET detected == adjustSettingsForPerformance(DefaultSettings, mode)
                             read == [detected EXCEPT !.reducedMotion = matches]
                         IN IF matches THEN adjustForReducedMotion(read, mode) ELSE read
    /\ animationQueue = <<>>
    /\ activeAnimations = {}
    /\ animLog = NoAnimLog

AnimationsNext ==
    \/ \E fps \in FrameRates : MeasurePerformance(fps)
    \/ \E matches \in BOOLEAN : ReducedMotionChange(matches)
    \/ animLog.queued < MaxQueued /\ Len(animationQueue) < MaxWaiting
       /\ \E type \in QueuedTypes : QueueAnimation(type)
    \/ AnimationFrame
    \/ CleanupExpiredAnimations

SpecAnimations == AnimationsInit /\ [][AnimationsNext]_vars

(***************************************************************************)
(* Properties                                                              *)
(***************************************************************************)

\* the lists a search has displayed or cached
SearchLists == {shown.results} \cup {searchCache[i].value : i \in 1..Len(searchCache)}
\* a result without its searchQuery field
StripQuery(r) == [f \in DOMAIN r \ {"searchQuery"} |-> r[f]]
Content(results) == [i \in 1..Len(results) |-> StripQuery(results[i])]
\* where a result's profile stands in app.alumniData
PositionOf(r) == CHOOSE i \in 1..Len(alumniData) : alumniData[i].id = r.id
\* a profile without any data
NoData(alumni) ==
    \A g \in {"personal", "professional", "networking"} :
        ~Has(alumni, g) \/ DOMAIN alumni[g] = {}

\* C1: no list that a search displays or caches holds a profile whose
\* searchRelevance is 0.1 or less (local path and remote path alike).
C1_NoLowRelevance ==
    \A results \in SearchLists : \A i \in 1..Len(results) :
        RLess(Milli(100), results[i].searchRelevance)

\* C2: every list a search displays, computed or served from the cache, is
\* sorted by searchRelevance, largest first.
C2_SortedByRelevance ==
    \A results \in SearchLists : \A i \in 1..(Len(results) - 1) :
        RLeq(results[i + 1].searchRelevance, results[i].searchRelevance)

\* a displayed list served from the cache whose best profile stands last among
\* its profiles in the directory: the sort had to move it to the front
C2_Witness ==
    /\ shown.valid /\ shown.hit /\ Len(shown.results) >= 3
    /\ RLess(shown.results[Len(shown.results)].searchRelevance,
             shown.results[1].searchRelevance)
    /\ \A i \in 2..Len(shown.results) :
          PositionOf(shown.results[i]) < PositionOf(shown.results[1])

\* C3: profiles of equal relevance stand in a displayed or cached list in the
\* order they have in app.alumniData.
C3_StableRanking ==
    \A results \in SearchLists : \A i \in 1..Len(results) : \A j \in (i + 1)..Len(results) :
        results[i].searchRelevance = results[j].searchRelevance
            => PositionOf(results[i]) < PositionOf(results[j])

\* a locally ranked list in which the sort moved a profile past two tied ones
C3_Witness ==
    /\ shown.valid /\ ~AIEnabled /\ Len(shown.results) >= 3
    /\ shown.results[2].searchRelevance = shown.results[3].searchRelevance
    /\ PositionOf(shown.results[1]) > PositionOf(shown.results[3])
    /\ RLess(shown.results[2].searchRelevance, shown.results[1].searchRelevance)

\* C4: the score calculateRelevanceScore returns lies in [0, 1], whatever
\* optional fields the profile lacks.
C4_ScoreInUnitInterval ==
    scoring.done => RLeq(RZero, scoring.score) /\ RLeq(scoring.score, ROne)

\* all eight signals trigger, their weights add up to more than 1, the score is 1
C4_Witness ==
    /\ scoring.done
    /\ scoring.alumni = FullProfile
    /\ scoring.query = "ceo ann advice technology london"
    /\ RLess(ROne, ScoreSum(scoring.alumni, extractSearchTerms(scoring.query),
                            scoring.query))
    /\ scoring.score = ROne

\* C5: a profile without data scores exactly 0 for every query, and so never
\* passes the threshold into a result list.
C5_NoDataScoresZero ==
    (scoring.done /\ NoData(scoring.alumni))
        => scoring.score = RZero /\ ~PassesThreshold(scoring.score)

\* C6: a call that follows directly on a completed call for the same
\* normalized query is served from the cache, scores no profile and displays
\* the very list the first call displayed.
C6_Idempotent ==
    lastCall.successive =>
        /\ lastCall.hit
        /\ lastCall.scored = 0
        /\ lastCall.displayed = lastCall.prevShown

\* the second call's raw query differs from the first call's, the list is not empty
C6_Witness ==
    /\ lastCall.successive /\ lastCall.hit
    /\ Len(lastCall.displayed) > 0
    /\ lastCall.displayed[1].searchQuery # lastCall.query
    /\ NormalizeQuery(lastCall.displayed[1].searchQuery) = lastCall.norm

C8_FifoEviction ==
    /\ evictLog.key # "" => evictLog.wasOldest
    /\ lastCall.hit => lastCall.orderKept
    /\ lastCall.wasEvicted => ~lastCall.hit /\ lastCall.scored = Len(alumniData)

\* the first query was served from the cache when the cache was all but full,
\* was evicted all the same, and is searched again
C8_Witness ==
    /\ evictLog.key = NormalizeQuery(SessionQuery(1))
    /\ evictLog.usedLater
    /\ lastCall.norm = evictLog.key
    /\ lastCall.wasEvicted /\ ~lastCall.hit

\* C9: on the local path, a list served from the cache is, but for the
\* searchQuery field, the list a fresh computation for the raw query of the
\* call would give.
C9_HitEqualsRecomputation ==
    (shown.valid /\ shown.hit /\ ~AIEnabled)
        => Content(shown.results) = Content(LocalSearch(alumniData, shown.query))

\* C10: every result of a displayed list carries the raw query of the call
\* that displayed it.
C10_ResultsCarryCallQuery ==
    shown.valid =>
        \A i \in 1..Len(shown.results) : shown.results[i].searchQuery = shown.query

\* C11: no step of a search changes app.alumniData, and every result of a
\* displayed or cached list is the profile of that id, as it stands in
\* app.alumniData, extended with searchRelevance and searchQuery.
C11_ProfilesUntouched ==
    [][/\ alumniData' = alumniData
       /\ \A results \in SearchLists' : \A i \in 1..Len(results) :
             /\ DOMAIN results[i] =
                   DOMAIN alumniData[PositionOf(results[i])]
                       \cup {"searchRelevance", "searchQuery"}
             /\ \A f \in DOMAIN alumniData[PositionOf(results[i])] :
                   results[i][f] = alumniData[PositionOf(results[i])][f]]_vars

\* a local search has ranked a profile in front of profiles that precede it
\* in app.alumniData, and a later call has displayed that list from the cache
C11_Witness ==
    /\ shown.valid /\ shown.hit /\ ~AIEnabled /\ Len(shown.results) >= 2
    /\ PositionOf(shown.results[1]) > PositionOf(shown.results[2])
    /\ alumniData = DataSummit

C13_BlankQueryClears ==
    [][(calls' = calls + 1 /\ Trim(lastCall'.query) = "") =>
          /\ searchMode' = FALSE
          /\ currentQuery' = ""
          /\ filteredData' = alumniData'
          /\ searchCache' = searchCache
          /\ inflight' = inflight
          /\ lastCall'.scored = 0]_vars

\* a white-space query has been handed to performSearch after a search had
\* filled the cache, and the whole directory is displayed again
C13_Witness ==
    /\ calls > 1 /\ lastCall.query = " "
    /\ Len(searchCache) > 0
    /\ ~searchMode /\ currentQuery = "" /\ filteredData = alumniData

\* C14: with the remote search enabled, a call whose remote request failed
\* (request or envelope failed, content missing or no JSON array) carries and
\* displays the list the local search gives for its query, and the error
\* handler of performSearch is not reached.
C14_RemoteFailureFallsBack ==
    /\ ~errorNotified
    /\ \A i \in 1..Len(inflight) :
          inflight[i].fellBack =>
             /\ ~inflight[i].threw
             /\ inflight[i].results = LocalSearch(alumniData, inflight[i].query)
    /\ (shown.valid /\ shown.fellBack) =>
          shown.results = LocalSearch(alumniData, shown.query)

\* a request failed, was recorded as failed, and the local ranking, which is
\* not the directory order, is displayed
C14_Witness ==
    /\ AIEnabled /\ shown.valid /\ shown.fellBack
    /\ Len(failedRequests) > 0
    /\ Len(shown.results) >= 2
    /\ PositionOf(shown.results[1]) > PositionOf(shown.results[2])

\* C15: while the cache entry of a normalized query has not been evicted, the
\* local scorer has run for that query at most once, however the performSearch
\* calls interleave.
C15_ScoredAtMostOnce ==
    \A k \in DOMAIN scoreRuns : scoreRuns[k] <= 1

\* the industry vocabulary terms that the lowercased query contains
IndustryTermsIn(query) ==
    {industries[i] : i \in {k \in 1..Len(industries) :
                                Includes(ToLowerCase(query), industries[k])}}

\* C16: a profile whose industry equals an industry term that the query
\* contains scores at least 0.15 and passes into the output; a profile whose
\* industry equals no matched term (it contains one, or differs from it in
\* case) gets no industry weight.
C16_IndustryExactMatch ==
    (scoring.done /\ ~scoring.threw) =>
        LET professional == PropOr(scoring.alumni, "professional", EmptyObject)
            searchTerms == extractSearchTerms(scoring.query)
            industry == PropOr(professional, "industry", "")
            matched == {searchTerms.matchedIndustries[i] :
                           i \in 1..Len(searchTerms.matchedIndustries)}
        IN /\ industry \in IndustryTermsIn(scoring.query) =>
                 /\ RLeq(Milli(150), scoring.score)
                 /\ PassesThreshold(scoring.score)
           /\ industry \notin matched =>
                 IndustryWeight(professional, searchTerms) = RZero

\* the query is the industry of the profile: the industry weight and the
\* exact-substring weight make up the score, 0.65
C16_Witness ==
    /\ scoring.done
    /\ scoring.query = "technology"
    /\ scoring.alumni = [id |-> "p1", professional |-> [industry |-> "technology"]]
    /\ IndustryWeight(scoring.alumni.professional,
                      extractSearchTerms(scoring.query)) = Milli(150)
    /\ scoring.score = Milli(650)

\* C17: when a keyword of the query is part of the lowercased role and a role
\* term that the query contains is part of it too, the role contributes
\* 0.25 times a positive fuzzy score plus 0.125, and the score holds that
\* contribution; for "founder" against "Founder & CEO" the fuzzy score is 1.
C17_RoleFuzzyAndBonus ==
    (scoring.done /\ ~scoring.threw) =>
        LET professional == PropOr(scoring.alumni, "professional", EmptyObject)
            searchTerms == extractSearchTerms(scoring.query)
            role == ToLowerCase(PropOr(professional, "current_role", ""))
            fuzzy == fuzzyMatch(role, searchTerms.keywords)
            keywordInRole == \E i \in 1..Len(searchTerms.keywords) :
                                Includes(role, searchTerms.keywords[i])
            termInBoth == \E i \in 1..Len(roles) :
                             /\ Includes(ToLowerCase(scoring.query), roles[i])
                             /\ Includes(role, roles[i])
        IN /\ (role # "" /\ keywordInRole /\ termInBoth) =>
                 /\ RLess(RZero, fuzzy)
                 /\ RoleWeight(professional, searchTerms)
                       = RAdd(RMul(Milli(250), fuzzy), Milli(125))
                 /\ RLeq(RMin(RAdd(RMul(Milli(250), fuzzy), Milli(125)), ROne),
                         scoring.score)
           /\ (scoring.query = "founder" /\ role = "founder & ceo") =>
                 /\ fuzzy = ROne
                 /\ RoleWeight(professional, searchTerms) = Milli(375)

\* "founder" against a profile that has the role "Founder & CEO" and nothing
\* else: 0.25 + 0.125 for the role and 0.5 for the exact substring
C17_Witness ==
    /\ scoring.done
    /\ scoring.query = "founder"
    /\ scoring.alumni = [id |-> "p2", professional |-> [current_role |-> "Founder & CEO"]]
    /\ scoring.score = Milli(875)

\* The score as the eight signals define it, a field that is absent standing
\* for the empty string or the empty list.
FieldOr(obj, f, dflt) == IF Has(obj, f) THEN obj[f] ELSE dflt
SignalSum(alumni, query) ==
    LET personal == FieldOr(alumni, "personal", EmptyObject)
        professional == FieldOr(alumni, "professional", EmptyObject)
        networking == FieldOr(alumni, "networking", EmptyObject)
        location == FieldOr(personal, "location", EmptyObject)
        name == ToLowerCase(FieldOr(personal, "name", ""))
        role == ToLowerCase(FieldOr(professional, "current_role", ""))
        company == ToLowerCase(FieldOr(professional, "company", ""))
        industry == FieldOr(professional, "industry", "")
        city == ToLowerCase(FieldOr(location, "city", ""))
        country == ToLowerCase(FieldOr(location, "country", ""))
        tags == ToLowerCase(JoinSpace(FieldOr(professional, "expertise_tags", <<>>)))
        wanted == ToLowerCase(JoinSpace(FieldOr(networking, "goals", <<>>)
                                        \o FieldOr(networking, "offering", <<>>)))
        searchTerms == extractSearchTerms(query)
        Fuzzy(text) == fuzzyMatch(text, searchTerms.keywords)
        InRole(term) == Includes(role, term)
        IsIndustry(term) == term = industry
        InLocation(term) == Includes(city \o " " \o country, term)
        InWanted(term) == Includes(wanted, term)
        Weight(triggered, milli) == IF triggered THEN Milli(milli) ELSE RZero
    IN RAdd(Weight(Includes(name \o " " \o role \o " " \o company \o " "
                               \o ToLowerCase(industry) \o " " \o city,
                            ToLowerCase(query)), 500),
       RAdd(RMul(Milli(300), Fuzzy(name)),
       RAdd(RMul(Milli(250), Fuzzy(role)),
       RAdd(Weight(role # "" /\ Some(searchTerms.matchedRoles, InRole), 125),
       RAdd(RMul(Milli(200), Fuzzy(company)),
       RAdd(Weight(industry # "" /\ Some(searchTerms.matchedIndustries, IsIndustry), 150),
       RAdd(RMul(Milli(200), Fuzzy(tags)),
       RAdd(Weight(Some(searchTerms.matchedLocations, InLocation), 100),
            Weight(Some(searchTerms.matchedGoals, InWanted), 150)))))))))

\* C18: the score is the sum of the eight signals' weights, capped at 1, and
\* nothing else contributes to it.
C18_ScoreIsSignalSum ==
    (scoring.done /\ ~scoring.threw) =>
        scoring.score = RMin(SignalSum(scoring.alumni, scoring.query), ROne)

\* the same, for the profiles that have a name, a role, a company, an
\* industry and a city
HasTextFields(alumni) ==
    /\ Has(alumni, "personal") /\ Has(alumni, "professional")
    /\ Has(alumni.personal, "name") /\ Has(alumni.personal, "location")
    /\ Has(alumni.personal.location, "city")
    /\ {"current_role", "company", "industry"} \subseteq DOMAIN alumni.professional
ScoreIsSignalSumOfFullText ==
    (scoring.done /\ ~scoring.threw /\ HasTextFields(scoring.alumni)) =>
        scoring.score = RMin(SignalSum(scoring.alumni, scoring.query), ROne)

\* The tokens of a text: the maximal runs of characters that are not white
\* space, each named by the position of its first character.
TokenStarts(s) ==
    {i \in 1..Len(s) : ~IsSpace(CharAt(s, i)) /\ (i = 1 \/ IsSpace(CharAt(s, i - 1)))}
TokenAt(s, i) ==
    LET last == CHOOSE j \in i..Len(s) :
                    /\ \A k \in i..j : ~IsSpace(CharAt(s, k))
                    /\ (j = Len(s) \/ IsSpace(CharAt(s, j + 1)))
    IN SubSeq(s, i, last)
LongTokenStarts(s) == {i \in TokenStarts(s) : Len(TokenAt(s, i)) > 2}
\* the weights that do not depend on the keywords: exact substring, role
\* bonus, industry, location, networking, in thousandths
KeywordFreeSums ==
    {RMin(Milli(e + b + i + l + n), ROne) :
        e \in {0, 500}, b \in {0, 125}, i \in {0, 150}, l \in {0, 100}, n \in {0, 150}}

\* C19: the keywords are the tokens of the lowercased query longer than two
\* characters, in the order of the query; when every token is at most two
\* characters long there is no keyword, and the score is made of the exact
\* substring weight and the vocabulary weights alone.
C19_KeywordsAreLongTokens ==
    scoring.done =>
        LET lowered == ToLowerCase(scoring.query)
            keywords == extractSearchTerms(scoring.query).keywords
            starts == LongTokenStarts(lowered)
            Before(i) == Cardinality({j \in starts : j < i})
        IN /\ Len(keywords) = Cardinality(starts)
           /\ \A i \in starts : keywords[Before(i) + 1] = TokenAt(lowered, i)
           /\ (starts = {} /\ ~scoring.threw) => scoring.score \in KeywordFreeSums

C19_Witness ==
    /\ scoring.done /\ ~scoring.threw
    /\ scoring.query = "an"
    /\ extractSearchTerms(scoring.query).keywords = <<>>
    /\ Has(scoring.alumni, "personal") /\ Has(scoring.alumni.personal, "name")
    /\ scoring.score = Milli(500)

\* the texts of a profile that are matched against the keywords
FuzzyTexts(alumni) ==
    LET personal == FieldOr(alumni, "personal", EmptyObject)
        professional == FieldOr(alumni, "professional", EmptyObject)
    IN {ToLowerCase(FieldOr(personal, "name", "")),
        ToLowerCase(FieldOr(professional, "current_role", "")),
        ToLowerCase(FieldOr(professional, "company", "")),
        ToLowerCase(JoinSpace(FieldOr(professional, "expertise_tags", <<>>)))}
\* the point of the n-th keyword: 1 when the text contains it, else the
\* similarity when it is more than 7/10, else nothing
PointOf(text, keyword) ==
    LET longest == IF Len(text) > Len(keyword) THEN Len(text) ELSE Len(keyword)
        kept == longest - levenshteinDistance(text, keyword)
    IN IF Includes(text, keyword) THEN ROne
       ELSE IF 10 * kept > 7 * longest THEN Rat(kept, longest)
       ELSE RZero
RECURSIVE PointsUpTo(_, _, _)
PointsUpTo(text, keywords, n) ==
    IF n = 0 THEN RZero
    ELSE RAdd(PointsUpTo(text, keywords, n - 1), PointOf(text, keywords[n]))
MeanOfPoints(text, keywords) ==
    LET total == PointsUpTo(text, keywords, Len(keywords))
    IN Rat(total.n, total.d * Len(keywords))

\* C20: fuzzyMatch lies between 0 and 1; it is 0 for an empty text or an empty
\* keyword list, and otherwise the mean of the keywords' points, at most 1,
\* where a keyword the text contains gives 1 point and any other keyword gives
\* its similarity to the text when that is strictly greater than 0.7.
C20_FuzzyMatchIsMeanOfPoints ==
    scoring.done =>
        \A text \in FuzzyTexts(scoring.alumni) \cup {""} :
            \A keywords \in {extractSearchTerms(scoring.query).keywords, <<>>} :
                LET matched == fuzzyMatch(text, keywords)
                IN /\ RLeq(RZero, matched) /\ RLeq(matched, ROne)
                   /\ (text = "" \/ keywords = <<>>) => matched = RZero
                   /\ (text # "" /\ keywords # <<>>) =>
                          matched = RMin(MeanOfPoints(text, keywords), ROne)

C20_Witness ==
    /\ scoring.done /\ ~scoring.threw
    /\ scoring.query = "engineers"
    /\ "engineer" \in FuzzyTexts(scoring.alumni)
    /\ fuzzyMatch("engineer", extractSearchTerms(scoring.query).keywords) = Rat(8, 9)
    /\ scoring.score = Rat(25, 72)

\* C21: levenshteinDistance gives the same distance whichever of the two
\* strings comes first, the empty string included.
C21_LevenshteinSymmetric ==
    distances.done => distances.forth = distances.back

C21_Witness ==
    /\ distances.done
    /\ distances.str1 = "kitten" /\ distances.str2 = "sitting"
    /\ distances.forth = 3 /\ distances.back = 3

\* C22: at most one debounce timer is set at a time and an input leaves no
\* timer of an earlier input behind; a timer starts a search only for a query
\* of three characters or more that has been the latest input for the whole
\* delay; an input that empties the field leaves no timer, clears the search
\* and scores nothing.
IsInput == typed'.count = typed.count + 1
C22_Debounced ==
    /\ [](/\ Cardinality(timers) <= 1
          /\ fired.count > 0 =>
                /\ fired.query = fired.latest
                /\ fired.age >= searchDebounceDelay
                /\ Len(fired.query) >= 3)
    /\ [][/\ IsInput => \A t \in timers' : t.id = searchTimeout' /\ t.query = typed'.query
          /\ (IsInput /\ typed'.query = "") =>
                /\ timers' = {}
                /\ ~searchMode' /\ filteredData' = alumniData' /\ currentQuery' = ""
                /\ calls' = calls /\ scoreRuns' = scoreRuns /\ inflight' = inflight
          /\ calls' # calls =>
                /\ fired'.count = fired.count + 1
                /\ \E t \in timers : t.remaining = 0 /\ t.query = fired'.query]_vars

C22_Witness ==
    /\ typed.count = 3 /\ typed.query = "ann"
    /\ fired.count = 1 /\ fired.query = "ann"
    /\ calls = 1
    /\ timers = {}

\* C23: a search that completes displays its results only if no performSearch
\* and no clearSearch has been issued since it was itself issued.
C23_LatestRequestDisplayed ==
    shown.valid => ~shown.stale

\* C24: once no debounce timer is set and no search is in flight, the
\* loading state of the search field is no longer shown.
C24_LoadingHiddenAtRest ==
    (timers = {} /\ inflight = <<>>) => ~loading

\* C25: an entry leaves the cache only when a key that is not yet cached is
\* stored into a full cache; storing under a key already cached evicts nothing.
C25_EvictsOnlyForNewKey ==
    evictLog.key # "" =>
        /\ ~evictLog.present
        /\ evictLog.sizeBefore >= maxCacheSize

\* C26: retryFailedRequests leaves failedRequests empty, and each request it
\* retries starts a new search for its query instead of displaying what the
\* cache holds for it.
C26_RetrySearchesAfresh ==
    [][/\ (retrying = <<>> /\ retrying' # <<>>) => failedRequests' = <<>>
       /\ (retrying # <<>> /\ retrying' = Tail(retrying)) =>
             /\ ~lastCall'.hit
             /\ Len(inflight') = Len(inflight) + 1]_vars

\* C27: the search history never holds more than 20 entries nor two entries
\* with the same query; it changes only when a search completes, a search
\* that was not live puts its query first, and a live search leaves the
\* history as it was.
Completing ==
    inflight[CHOOSE k \in 1..Len(inflight) :
                Resolved(inflight[k]) /\ \A j \in 1..(k - 1) : ~Resolved(inflight[j])]
C27_HistoryBoundedDistinctNewestFirst ==
    /\ [](/\ Len(searchHistory) <= 20
          /\ \A i, j \in 1..Len(searchHistory) :
                searchHistory[i].query = searchHistory[j].query => i = j)
    /\ [][/\ searchHistory' # searchHistory => Len(inflight') < Len(inflight)
          /\ Len(inflight') < Len(inflight) =>
                IF Completing.isLiveSearch
                THEN searchHistory' = searchHistory
                ELSE /\ searchHistory' # <<>>
                     /\ searchHistory'[1].query = Completing.query]_vars

C27_Witness ==
    /\ Len(searchHistory) = 20
    /\ insertions > 22
    /\ fired.count > 0
    /\ calls > insertions
    /\ inflight = <<>>
    /\ searchHistory[1].query = lastCall.query

\* C28: once a quick filter other than 'all' is selected and no filter timer
\* is left to fire, the filtered list holds exactly the profiles of the
\* directory that satisfy the quick filter and every advanced filter in force.
AdvancedKeys == {"industry", "location", "year", "experience"}
SatisfiesFilters(alumni) ==
    /\ FilterCase(alumni, activeFilters.quick, activeFilters.quick)
    /\ \A key \in AdvancedKeys :
          activeFilters[key] # "" => FilterCase(alumni, key, activeFilters[key])
C28_QuickFilterApplied ==
    (activeFilters.quick # "all" /\ filterTimers = 0) =>
        filteredData = SelectSeq(alumniData, SatisfiesFilters)

\* C29: while the reduced-motion setting is on, the particles, connections,
\* morphing and parallax settings are all off.
C29_ReducedMotionKeepsAnimationsOff ==
    settings.reducedMotion =>
        /\ ~settings.enableParticles /\ ~settings.enableConnections
        /\ ~settings.enableMorphing /\ ~settings.enableParallax

\* C30: every animation the loop takes off the queue is dispatched to its
\* handler; none is dropped.
C30_DequeuedAnimationsDispatched ==
    animLog.dispatched = animLog.shifted

====
